---- MODULE Spec2Model ----
(***************************************************************************)
(* Model of the installer pipeline of dev-dashboard (src/src/main.rs):     *)
(* the polling context (DevDashboard::update and show_tools_tab), the      *)
(* asynchronous task (download_ninite_installer and its spawn wrapper),    *)
(* the mpsc channel between them, and the environment they touch (the      *)
(* artifact file "ninite.exe", the HTTP response, the installer process,   *)
(* the probed executables of the catalog apps).                            *)
(***************************************************************************)
EXTENDS Integers, Sequences, FiniteSets, TLC

(* ------------------------------ bounds --------------------------------- *)
\* number of pipeline runs the model lets the user start
MaxRuns == 2
\* largest response body, in bytes
MaxBody == 2
\* largest chunk the byte stream yields, in bytes
MaxChunk == 2

\* number of catalog entries the model keeps
NApps == 2

\* largest cumulative byte count an interface reports
MaxReading == 3

\* largest time, in ticks, between two network refreshes
MaxElapsed == 1

\* u64::MAX, scaled down to the size of the readings
U64_MAX == 7

\* bits of the mantissa of an f32, scaled down
MantissaBits == 3

\* the smallest positive f32 is 2^-UnitBits, scaled down
UnitBits == 7

(* --------------------------- static catalog ---------------------------- *)
\* the first entries of the catalog built in DevDashboard::default
AllApps == << [name |-> "Chrome", ninite_id |-> "chrome"],
              [name |-> "Firefox", ninite_id |-> "firefox"],
              [name |-> "Edge", ninite_id |-> "edge"] >>
Catalog == SubSeq(AllApps, 1, NApps)

AppIdx == 1..Len(Catalog)
AppNames == {Catalog[i].name : i \in AppIdx}
\* the apps already installed on the machine when the dashboard starts:
\* every catalog entry but the first
Preinstalled == AppNames \ { Catalog[1].name }

(* -------------------------- enum InstallerState ------------------------ *)
Idle == <<"Idle">>
Downloading == <<"Downloading">>
Installing == <<"Installing">>
Error(m) == <<"Error", m>>
IsError(s) == s[1] = "Error"
\* the variant of an InstallerState, without the message of an Error
Kind(s) == s[1]

(* ------------------------- enum InstallerMessage ----------------------- *)
\* a progress value is the pair <<downloaded, total_size>> standing for the
\* quotient downloaded as f32 / total_size as f32
UpdateProgress(p) == <<"UpdateProgress", p>>
SetState(s) == <<"SetState", s>>
ErrorMsg(m) == <<"Error", m>>

(* --------------- Display of InstallerError (e.to_string()) ------------- *)
NoAppsSelected == "No apps selected"
DownloadFailed(why) ==
  CASE why = "request"   -> "Download failed: error sending request"
    [] why = "body"      -> "Download failed: error decoding response body"
    [] why = "status"    -> "Download failed: Server returned: 404"
    [] why = "remove"    -> "Download failed: Could not remove existing installer file"
    [] why = "create"    -> "Download failed: Could not create installer file"
    [] why = "write"     -> "Download failed: Failed to write installer"
    [] why = "spawn"     -> "Download failed: Failed to launch installer"
    [] why = "wait"      -> "Download failed: Failed to wait for installer"
ChannelError == "Communication error: sending on a closed channel"

VARIABLES
  \* ---- DevDashboard (polling context) ----
  installer_state,    \* InstallerState
  download_progress,  \* <<num, den>>
  selected_apps,      \* Vec<String>
  ninite_apps,        \* catalog index -> the entry's installed flag
  current_tab,        \* "Dashboard" | "Tools"
  ninite_running,     \* bool
  message_receiver,   \* 0 = None, r = the Receiver of the channel of run r
  LAST_CHECK,         \* static mut LAST_CHECK: FALSE = None, TRUE = Some(_)
  \* ---- channel ----
  queue,              \* messages in flight on the channel message_receiver reads
  \* ---- asynchronous tasks ----
  tasks,              \* run id -> state of that run's task
  nruns,              \* number of runs spawned so far
  \* ---- environment ----
  artifact,           \* whether a file exists at "ninite.exe"
  exe_exists,         \* app name -> a probed path is an existing regular file
  registry,           \* app name -> whether one of its registry keys opens,
                      \* and whether an uninstall entry names it
  status_log,         \* for each detection pass the last step ran, in
                      \* order, the number of "Installation status changed"
                      \* lines it logged
  networks,           \* interface name -> the cumulative received bytes the
                      \* system reports for it (sys.networks())
  cpu_load,           \* the mean usage over the cores the system reports
                      \* (sys.cpus()), an f32
  \* ---- DevDashboard (telemetry) ----
  network_stats,      \* interface name -> NetworkStats
  current_cpu_usage,  \* AnimatedValue
  gpu_info,           \* Option<GpuInfo>
  nvml,               \* Option<Nvml>
  \* ---- history (not program state) ----
  frame,              \* None, or where the frames are followed
                      \* Some([parity, checkDue]): the parity of the number
                      \* of frames processed so far, and whether the last
                      \* frame's 2-second process scan was due
  transitions,        \* the pairs <<from, to>> of variants of every assignment
                      \* made to installer_state so far
  retry_clicked       \* the last step was an update in which the user
                      \* clicked on the Retry button

vars == << installer_state, download_progress, selected_apps, ninite_apps,
           current_tab, ninite_running, message_receiver, LAST_CHECK, queue,
           tasks, nruns, artifact, exe_exists, registry, status_log,
           networks, cpu_load, network_stats, current_cpu_usage, gpu_info,
           nvml, frame, transitions, retry_clicked >>

Runs == 1..MaxRuns

\* no interface: what sys.networks() reports on a machine without network
\* adapters, and the network_stats map built from it
NoInterfaces == [n \in {} |-> 0]

\* Option<T>, and Option::unwrap_or
None == <<>>
Some(x) == << x >>
unwrap_or(opt, default) == IF opt = None THEN default ELSE opt[1]

(* ------------------------------- f32 ---------------------------------- *)
\* An f32, scaled down: a value is a whole number of units of 1/Unit, and is
\* representable when it is m * 2^e units with a mantissa m of MantissaBits
\* bits (f32: 24 bits, and a smallest positive value of 2^-149).
RECURSIVE Pow2(_)
Pow2(e) == IF e = 0 THEN 1 ELSE 2 * Pow2(e - 1)

Unit == Pow2(UnitBits)

Abs(x) == IF x < 0 THEN -x ELSE x

\* the position of the leading bit of a >= 1
RECURSIVE Log2(_)
Log2(a) == IF a < 2 THEN 0 ELSE 1 + Log2(a \div 2)

\* the spacing of the representable values around a units
Quantum(a) ==
  IF a < Pow2(MantissaBits) THEN 1 ELSE Pow2(Log2(a) - (MantissaBits - 1))

\* rounding to nearest, ties to the even mantissa: the representable value
\* nearest to num/den units (den > 0)
RoundAbs(num, den) ==
  LET q == Quantum(num \div den)
      lower == (num \div (den * q)) * q
      rest == num - lower * den
  IN IF 2 * rest < q * den THEN lower
     ELSE IF 2 * rest > q * den THEN lower + q
     ELSE IF (lower \div q) % 2 = 0 THEN lower ELSE lower + q
Round(num, den) == IF num < 0 THEN -RoundAbs(-num, den) ELSE RoundAbs(num, den)

\* f32 addition, subtraction and multiplication
fadd(a, b) == Round(a + b, 1)
fsub(a, b) == Round(a - b, 1)
fmul(a, b) == Round(a * b, Unit)

\* f32::exp, for the arguments -8.0 * delta_time of DeltaTimes: e^x to
\* five decimals, by the number of sixteenths in x
ExpTable ==
  [ x \in { 0, -1, -16, -128 } |->
      CASE x = 0 -> << 1, 1 >>
        [] x = -1 -> << 93941, 100000 >>
        [] x = -16 -> << 36788, 100000 >>
        [] x = -128 -> << 34, 100000 >> ]
exp(x) ==
  LET e == ExpTable[(x * 16) \div Unit] IN Round(e[1] * Unit, e[2])

\* f32::clamp and f32::min
clamp(x, lo, hi) == IF x < lo THEN lo ELSE IF x > hi THEN hi ELSE x
fmin(a, b) == IF b < a THEN b ELSE a

\* fn lerp
lerp(start, end, t) == fadd(start, fmul(fsub(end, start), clamp(t, 0, Unit)))

\* AnimatedValue::new; delta_time is the argument of the last update (not a
\* field of the struct)
AnimatedValue_new(value) == [ current |-> value, target |-> value, delta_time |-> 0 ]

\* AnimatedValue::update
AnimatedValue_update(self, delta_time) ==
  LET smoothing == fsub(Unit, exp(fmul(-8 * Unit, delta_time))) IN
  [self EXCEPT !.current = lerp(self.current, self.target, smoothing),
               !.delta_time = delta_time]

\* AnimatedValue::set_target
set_target(self, target) == [self EXCEPT !.target = target]

\* the frame times: none, 1/128 s, 1/8 s and 1 s
DeltaTimes == { 0, Unit \div 128, Unit \div 8, Unit }

\* a machine with an idle processor and no graphics adapter
IdleMachine ==
  /\ cpu_load = 0
  /\ current_cpu_usage = AnimatedValue_new(0)
  /\ gpu_info = None
  /\ nvml = None

\* the locals of a download task: its parameters selected_apps and
\* ninite_apps (the clones of lines 875-876), url, total_size, downloaded,
\* the bytes the stream has yet to yield, the File, the child process; and
\* what the model remembers of a finished task
NoTask == [ pc |-> "unspawned", selected_apps |-> <<>>, ninite_apps |-> <<>>,
            url |-> "", total_size |-> 0,
            downloaded |-> 0, body |-> 0, chunks |-> 0, file |-> "none",
            child |-> "none", result |-> "none", sent |-> <<>>,
            net |-> FALSE, at_end |-> "absent", exit |-> None ]

\* a completed task after the runtime dropped it
Dropped == [NoTask EXCEPT !.pc = "done"]

(* ======================= polling context ============================== *)
\* The fields of DevDashboard the handlers below read and write, gathered in
\* one record so that a handler is a function from record to record.
Self == [ installer_state |-> installer_state,
          download_progress |-> download_progress,
          selected_apps |-> selected_apps,
          ninite_apps |-> ninite_apps,
          current_tab |-> current_tab,
          ninite_running |-> ninite_running,
          message_receiver |-> message_receiver,
          LAST_CHECK |-> LAST_CHECK,
          queue |-> queue,
          tasks |-> tasks,
          nruns |-> nruns,
          shown |-> 0,
          status_log |-> <<>>,
          network_stats |-> network_stats,
          current_cpu_usage |-> current_cpu_usage,
          gpu_info |-> gpu_info,
          transitions |-> transitions,
          retry |-> FALSE ]

\* Vec::retain(|x| x != name)
Retain(v, name) == SelectSeq(v, LAMBDA x : x # name)
Contains(v, name) == \E i \in 1..Len(v) : v[i] = name

\* the three signals NiniteApp::check_installation computes for catalog
\* entry i: lines 249-267, 275-316 and 319-352
registry_installed(i) == registry[Catalog[i].name].keys
file_installed(i) == exe_exists[Catalog[i].name]
uninstall_installed(i) == registry[Catalog[i].name].uninstall

\* check_installation with a verdict that takes any of the three signals
check_installation_any(d, i) ==
  LET installed == registry_installed(i) \/ file_installed(i) \/ uninstall_installed(i) IN
  [d EXCEPT !.ninite_apps[i] = installed,
            !.status_log[Len(d.status_log)] =
                IF installed # d.ninite_apps[i] THEN @ + 1 ELSE @]

\* check_installation that logs the status of an installed app on every call
check_installation_noisy(d, i) ==
  [d EXCEPT !.ninite_apps[i] = file_installed(i),
            !.status_log[Len(d.status_log)] =
                IF file_installed(i) THEN @ + 1 ELSE @]

\* NiniteApp::check_installation on entry i of self.ninite_apps, lines
\* 354-365: installed = file_installed, and one line logged when that
\* differs from was_installed
check_installation(d, i) ==
  [d EXCEPT !.ninite_apps[i] = file_installed(i),
            !.status_log[Len(d.status_log)] =
                IF file_installed(i) # d.ninite_apps[i] THEN @ + 1 ELSE @]

\* a detection pass begins: its log lines are counted from zero
begin_pass(d) == [d EXCEPT !.status_log = Append(@, 0)]

\* for app in &mut self.ninite_apps { app.check_installation(); }
RECURSIVE check_each(_, _)
check_each(d, i) ==
  IF i > Len(Catalog) THEN d ELSE check_each(check_installation(d, i), i + 1)

detection_pass(d) == check_each(begin_pass(d), 1)

\* the SetState(Idle) loop with the flags taken as they are, not re-checked
RECURSIVE refresh_and_prune_stale(_, _)
refresh_and_prune_stale(d, i) ==
  IF i > Len(Catalog) THEN d
  ELSE refresh_and_prune_stale(
         IF d.ninite_apps[i]
         THEN [d EXCEPT !.selected_apps = Retain(@, Catalog[i].name)] ELSE d,
         i + 1)

\* the loop of the SetState(Idle) arm: check each app, drop it from the
\* selection when it is installed
RECURSIVE refresh_and_prune(_, _)
refresh_and_prune(d, i) ==
  IF i > Len(Catalog) THEN d
  ELSE LET checked == check_installation(d, i) IN
       refresh_and_prune(
         IF checked.ninite_apps[i]
         THEN [checked EXCEPT !.selected_apps = Retain(@, Catalog[i].name)]
         ELSE checked,
         i + 1)

\* self.installer_state = s
assign_state(d, s) ==
  [d EXCEPT !.installer_state = s,
            !.transitions = @ \cup { << Kind(d.installer_state), Kind(s) >> }]

\* one iteration of `while let Ok(message) = receiver.try_recv()`
apply_message(d, m) ==
  CASE m[1] = "UpdateProgress" -> [d EXCEPT !.download_progress = m[2]]
    [] m[1] = "SetState" ->
         IF m[2] = Idle
         THEN refresh_and_prune(begin_pass(assign_state(d, m[2])), 1)
         ELSE assign_state(d, m[2])
    [] m[1] = "Error" -> assign_state(d, Error(m[2]))

RECURSIVE drain(_)
drain(d) ==
  IF d.queue = <<>> THEN d
  ELSE drain([apply_message(d, Head(d.queue)) EXCEPT !.queue = Tail(d.queue)])

\* the checkbox of catalog entry click[2]: shown only for an app that is not
\* installed, and it reacts only while the Ui is enabled (line 753:
\* ui.set_enabled(self.installer_state == InstallerState::Idle))
checkbox(d, click) ==
  IF click[1] = "toggle" /\ d.installer_state = Idle /\ ~d.ninite_apps[click[2]]
  THEN IF Contains(d.selected_apps, Catalog[click[2]].name)
       THEN [d EXCEPT !.selected_apps = Retain(@, Catalog[click[2]].name)]
       ELSE [d EXCEPT !.selected_apps = Append(@, Catalog[click[2]].name)]
  ELSE d

\* the Idle arm: channel(), message_receiver = Some(receiver), runtime.spawn
\* (a task that has completed was dropped by the runtime: what the model
\* remembers of it is forgotten when the next run starts)
spawn_task(d) ==
  [d EXCEPT !.message_receiver = d.nruns + 1,
            !.queue = <<>>,
            !.nruns = d.nruns + 1,
            !.tasks = [r \in Runs |->
                         IF r = d.nruns + 1
                         THEN [NoTask EXCEPT !.pc = "start",
                                             !.selected_apps = d.selected_apps,
                                             !.ninite_apps = Catalog]
                         ELSE IF d.tasks[r].pc = "done" THEN Dropped
                         ELSE d.tasks[r]]]

\* state_match with the Install button shown for an empty selection too
state_match_unguarded(d, click) ==
  CASE IsError(d.installer_state) ->
         IF click[1] = "retry"
         THEN IF d.installer_state = Idle
              THEN [assign_state(d, Idle) EXCEPT !.retry = TRUE]
              ELSE [d EXCEPT !.retry = TRUE]
         ELSE d
    [] d.installer_state = Idle ->
         IF click[1] = "install" /\ d.nruns < MaxRuns
         THEN spawn_task(d)
         ELSE d
    [] OTHER -> d

\* match &self.installer_state { ... }; the Ui it is laid out in is the one
\* line 753 enabled only for Idle
state_match(d, click) ==
  CASE IsError(d.installer_state) ->
         IF click[1] = "retry"
         THEN IF d.installer_state = Idle  \* the Ui is enabled
              THEN [assign_state(d, Idle) EXCEPT !.retry = TRUE]
              ELSE [d EXCEPT !.retry = TRUE]
         ELSE d
    [] d.installer_state = Idle ->
         IF d.selected_apps # <<>> /\ click[1] = "install" /\ d.nruns < MaxRuns
         THEN spawn_task(d)
         ELSE d
    [] OTHER -> d

\* lines 696-718: the periodic refresh of show_tools_tab
periodic_refresh(d, due) ==
  IF (~d.LAST_CHECK) \/ due
  THEN [detection_pass(d) EXCEPT !.LAST_CHECK = TRUE]
  ELSE d

\* lines 720-747
process_messages(d) == IF d.message_receiver # 0 THEN drain(d) ELSE d

show_tools_tab(d, due, click) ==
  [state_match(checkbox(process_messages(periodic_refresh(d, due)), click), click)
     EXCEPT !.shown = @ + 1]

NoClick == <<"none">>
\* a click on a tab, or a click inside the tools tab together with the
\* pass of show_tools_tab (first or second CentralPanel) whose widget takes it
ToolClicks == { <<"install">>, <<"retry">> } \cup { <<"toggle", i>> : i \in AppIdx }
Inputs == { [click |-> c, pass |-> 0] :
              c \in { NoClick, <<"tab", "Dashboard">>, <<"tab", "Tools">> } }
          \cup { [click |-> c, pass |-> p] : c \in ToolClicks, p \in 1..2 }

\* whether a process named *ninite*.exe is in the process list
ninite_process == \E r \in Runs : tasks[r].child = "running"

\* lines 1097-1120: the 2-second check, then the tab forced while a run is on
timer_check(d, checkDue) ==
  [(IF checkDue
    THEN IF ninite_process
         THEN [d EXCEPT !.ninite_running = TRUE]
         ELSE detection_pass([d EXCEPT !.ninite_running = FALSE])
    ELSE d)
   EXCEPT !.current_tab = IF d.installer_state # Idle THEN "Tools" ELSE @]

\* lines 1276-1288: the tabs panel
tabs_panel(d, click) ==
  IF ~d.ninite_running /\ click[1] = "tab"
  THEN [d EXCEPT !.current_tab = click[2]] ELSE d

\* lines 1305-1414: the first CentralPanel
first_panel(d, due, click) ==
  IF d.installer_state = Idle /\ d.current_tab = "Tools"
  THEN show_tools_tab(d, due, click) ELSE d

\* lines 1447-1450, and again lines 1613-1616
force_tools(d) ==
  IF d.ninite_running THEN [d EXCEPT !.current_tab = "Tools"] ELSE d

\* lines 1467-1580: the second CentralPanel
second_panel(d, due, click) ==
  IF ~d.ninite_running /\ d.current_tab = "Tools"
  THEN show_tools_tab(d, due /\ d.shown = 0, click) ELSE d

(* --------------------------- network card ----------------------------- *)
\* u64::wrapping_add in the place of saturating_add
saturating_add_wrapping(a, b) == (a + b) % (U64_MAX + 1)

\* u64::saturating_add
saturating_add(a, b) == IF a + b > U64_MAX THEN U64_MAX ELSE a + b

\* str::to_lowercase, str::starts_with and str::contains
UpperCase == "ABCDEFGHIJKLMNOPQRSTUVWXYZ"
LowerCase == "abcdefghijklmnopqrstuvwxyz"
lower_char(c) ==
  IF \E i \in 1..Len(UpperCase) : SubSeq(UpperCase, i, i) = c
  THEN LET i == CHOOSE i \in 1..Len(UpperCase) : SubSeq(UpperCase, i, i) = c
       IN SubSeq(LowerCase, i, i)
  ELSE c
RECURSIVE to_lowercase(_)
to_lowercase(str) ==
  IF Len(str) = 0 THEN ""
  ELSE lower_char(SubSeq(str, 1, 1)) \o to_lowercase(SubSeq(str, 2, Len(str)))
starts_with(str, pat) == Len(pat) <= Len(str) /\ SubSeq(str, 1, Len(pat)) = pat
contains(str, pat) ==
  \E i \in 1..(Len(str) - Len(pat) + 1) : SubSeq(str, i, i + Len(pat) - 1) = pat

\* DevDashboard::is_physical_interface
is_physical_interface(name) ==
  LET name_lower == to_lowercase(name) IN
  \/ contains(name_lower, "ethernet")
  \/ starts_with(name_lower, "eth")
  \/ starts_with(name_lower, "en")
  \/ starts_with(name_lower, "wlan")
  \/ starts_with(name_lower, "wi-fi")
  \/ starts_with(name_lower, "wireless")
  \/ contains(name_lower, "wireless")

\* the NetworkStats inserted for an interface first seen with the reading c
\* (lines 405-413 and 1222-1230). received_speed is the pair
\* <<bytes, ticks>>; received_diff, prev_received, prev_total and elapsed
\* are what the last refresh computed, read and measured (not fields of the
\* struct). The
\* sent counters are handled by the same code and are left out.
new_stats(c) ==
  [ total_received |-> c, last_received |-> c, received_speed |-> << 0, 1 >>,
    received_diff |-> 0, prev_received |-> c, prev_total |-> c, elapsed |-> 0 ]

\* refresh_stats with the difference taken as a plain subtraction
refresh_stats_signed(stats, current_received, elapsed) ==
  LET received_diff == current_received - stats.last_received IN
  IF elapsed > 0
  THEN [stats EXCEPT !.received_speed = << received_diff, elapsed >>,
                     !.total_received = saturating_add(@, received_diff),
                     !.received_diff = received_diff,
                     !.last_received = current_received,
                     !.prev_received = stats.last_received,
                     !.prev_total = stats.total_received,
                     !.elapsed = elapsed]
  ELSE [stats EXCEPT !.last_received = current_received,
                     !.prev_received = stats.last_received,
                     !.prev_total = stats.total_received,
                     !.elapsed = elapsed]

\* lines 1142-1165: the refresh of one tracked interface that the system
\* reports with the reading current_received
refresh_stats(stats, current_received, elapsed) ==
  LET received_diff == IF current_received < stats.last_received
                       THEN current_received
                       ELSE current_received - stats.last_received IN
  IF elapsed > 0
  THEN [stats EXCEPT !.received_speed = << received_diff, elapsed >>,
                     !.total_received = saturating_add(@, received_diff),
                     !.received_diff = received_diff,
                     !.last_received = current_received,
                     !.prev_received = stats.last_received,
                     !.prev_total = stats.total_received,
                     !.elapsed = elapsed]
  ELSE [stats EXCEPT !.last_received = current_received,
                     !.prev_received = stats.last_received,
                     !.prev_total = stats.total_received,
                     !.elapsed = elapsed]

\* lines 1132-1171: the 100 ms network refresh
network_refresh(d, due, elapsed) ==
  IF due
  THEN [d EXCEPT !.network_stats =
          [n \in DOMAIN d.network_stats |->
             IF n \in DOMAIN networks
             THEN refresh_stats(d.network_stats[n], networks[n], elapsed)
             ELSE d.network_stats[n]]]
  ELSE d

\* lines 1209-1232 of the 1-second refresh: the tracked interface set
track_interfaces(d, due) ==
  IF due
  THEN [d EXCEPT !.network_stats =
          [n \in { m \in DOMAIN networks : is_physical_interface(m) } |->
             IF n \in DOMAIN d.network_stats
             THEN d.network_stats[n]
             ELSE new_stats(networks[n])]]
  ELSE d

(* ------------------------------- GPU ---------------------------------- *)
\* `n as f32` and a literal n.0; f32 division
as_f32(n) == Round(n * Unit, 1)
fdiv(a, b) == Round(a * Unit, b)

\* GpuInfo::new. provider is the library the snapshot was built from and
\* refreshed_through the libraries update_gpu_info has gone through for it
\* (not fields of the struct). The memory fields are set next to
\* utilization in the NVML branch and are left out.
GpuInfo_new(name, provider) ==
  [ name |-> name, utilization |-> None, gpu_usage |-> AnimatedValue_new(0),
    provider |-> provider, refreshed_through |-> {} ]

\* what the Win32_VideoController query may return (nothing when COM or
\* the connection fails)
WmiControllers ==
  { <<>>, << "Microsoft Basic Display Adapter" >>, << "Intel UHD Graphics" >>,
    << "Microsoft Basic Display Adapter", "Intel UHD Graphics" >> }

\* utilization percentages a library may report
GpuLoads == { 0, 50, 100 }

\* DevDashboard::initialize_gpu: init is whether Nvml::init() succeeds,
\* device whether nvml.device_by_index(0) does, results the answer of WMI
initialize_gpu(init, device, results) ==
  IF init /\ device
  THEN Some(GpuInfo_new("NVIDIA GPU", "NVML"))
  ELSE LET real == { i \in 1..Len(results) :
                       ~contains(to_lowercase(results[i]), "microsoft basic display") }
       IN IF real = {} THEN None
          ELSE Some(GpuInfo_new(results[CHOOSE i \in real : \A j \in real : i <= j],
                                "WMI"))

\* the stores of one branch of update_gpu_info: util is the utilization the
\* branch's library reported, if it did
store_utilization(g, util, through) ==
  [(IF util = None THEN g
    ELSE [g EXCEPT !.utilization = Some(as_f32(util[1])),
                   !.gpu_usage = set_target(@, fmin(fdiv(as_f32(util[1]), as_f32(100)),
                                                    Unit))])
   EXCEPT !.refreshed_through = @ \cup { through }]

\* DevDashboard::update_gpu_info, called by the 1-second refresh: device is
\* whether nvml.device_by_index(0) succeeds, rates the answer of
\* device.utilization_rates(), perf the utilization of the first row of the
\* GPU performance counter query
update_gpu_info(d, due, device, rates, perf) ==
  IF ~due \/ d.gpu_info = None THEN d
  ELSE IF nvml # None
  THEN [d EXCEPT !.gpu_info =
          Some(store_utilization(d.gpu_info[1], IF device THEN rates ELSE None, "NVML"))]
  ELSE [d EXCEPT !.gpu_info = Some(store_utilization(d.gpu_info[1], perf, "WMI"))]

\* what the graphics libraries answer in one refresh; with no snapshot the
\* refresh does not ask them
GpuInputs ==
  IF gpu_info = None
  THEN { [device |-> FALSE, rates |-> None, perf |-> None] }
  ELSE [device : BOOLEAN, rates : { None } \cup { Some(u) : u \in GpuLoads },
        perf : { None } \cup { Some(u) : u \in GpuLoads }]

\* lines 1122-1130: the animation step of the frame. memory_usage and
\* disk_usage go through the same AnimatedValue::update and are left out.
animate(d, delta_time) ==
  [d EXCEPT !.current_cpu_usage = AnimatedValue_update(@, delta_time),
            !.gpu_info = IF @ = None THEN @
                         ELSE Some([@[1] EXCEPT !.gpu_usage =
                                      AnimatedValue_update(@, delta_time)])]

\* lines 1178-1187 of the 1-second refresh: the mean usage over the cores,
\* at most 100.0, becomes the target
cpu_refresh(d, due) ==
  IF due
  THEN [d EXCEPT !.current_cpu_usage = set_target(@, fmin(cpu_load, 100 * Unit))]
  ELSE d

\* whether the 100 ms and the 1-second timers are due, the time since the
\* last network refresh and the time since the last frame. When the
\* telemetry is at rest (no interface reported or tracked, the displayed
\* load at its target and the target at the load, no graphics adapter) the
\* refreshes and the animation change nothing, and one input stands for all.
NetInputs ==
  IF /\ DOMAIN networks = {} /\ DOMAIN network_stats = {}
     /\ current_cpu_usage.current = current_cpu_usage.target
     /\ current_cpu_usage.target = cpu_load
     /\ gpu_info = None
  THEN { [netDue |-> FALSE, secDue |-> FALSE, elapsed |-> 0, delta_time |-> 0] }
  ELSE [netDue : BOOLEAN, secDue : BOOLEAN, elapsed : 0..MaxElapsed,
        delta_time : DeltaTimes]

\* DevDashboard::update. The frame's inputs: whether the 2-second timers
\* are due, the user's click, and the pass of the tools tab the click lands in
update ==
  \E checkDue \in BOOLEAN, net \in NetInputs, gpu \in GpuInputs :
  \E d0 \in { network_refresh(animate(timer_check(Self, checkDue), net.delta_time),
                               net.netDue, net.elapsed) } :
  \E refreshed \in { update_gpu_info(
                        track_interfaces(cpu_refresh(d0, net.secDue), net.secDue),
                        net.secDue, gpu.device, gpu.rates, gpu.perf) } :
  \E toolsDue \in BOOLEAN, in \in Inputs :
  \E d1 \in { tabs_panel(refreshed, in.click) } :
  \E d2 \in { force_tools(first_panel(d1, toolsDue,
                    IF in.pass = 1 THEN in.click ELSE NoClick)) } :
  \E d \in { force_tools(second_panel(d2, toolsDue,
                    IF in.pass = 2 THEN in.click ELSE NoClick)) } :
      /\ installer_state' = d.installer_state
      /\ download_progress' = d.download_progress
      /\ selected_apps' = d.selected_apps
      /\ ninite_apps' = d.ninite_apps
      /\ current_tab' = d.current_tab
      /\ ninite_running' = d.ninite_running
      /\ message_receiver' = d.message_receiver
      /\ LAST_CHECK' = d.LAST_CHECK
      /\ queue' = d.queue
      /\ tasks' = d.tasks
      /\ nruns' = d.nruns
      /\ transitions' = d.transitions
      /\ retry_clicked' = d.retry
      /\ status_log' = d.status_log
      /\ network_stats' = d.network_stats
      /\ current_cpu_usage' = d.current_cpu_usage
      /\ gpu_info' = d.gpu_info
      /\ frame' = IF frame = None THEN None
                  ELSE Some([parity |-> 1 - frame[1].parity, checkDue |-> checkDue])
      /\ UNCHANGED << artifact, exe_exists, registry, networks, cpu_load, nvml >>

(* ======================= asynchronous task ============================ *)
\* the Receiver of run r's channel is alive as long as message_receiver
\* holds it; spawning a later run replaces (drops) it
alive(r) == message_receiver = r

Sent(t, m) == [t EXCEPT !.sent = Append(@, m)]

\* the task's future completes: its locals are gone and its File, if still
\* open, is dropped; the model keeps the result, the messages sent, whether
\* a request was made, and what became of the artifact: "absent" (no file
\* at the target path), "left" (a file is there), "undeletable" (a file is
\* there because the remove_file the code attempted failed)
Ended(t, res, end) ==
  [NoTask EXCEPT !.pc = "done", !.result = res, !.at_end = end,
                 !.file = IF t.file = "none" THEN "none" ELSE "closed",
                 !.child = t.child, !.selected_apps = t.selected_apps,
                 !.ninite_apps = t.ninite_apps, !.url = t.url,
                 !.sent = t.sent, !.net = t.net, !.exit = t.exit]

\* the artifact as a step that does not touch it finds it
Untouched == IF artifact THEN "left" ELSE "absent"

Commit(r, t, msgs, art) ==
  /\ tasks' = [tasks EXCEPT ![r] = t]
  /\ queue' = queue \o msgs
  /\ artifact' = art
  /\ retry_clicked' = FALSE
  /\ status_log' = <<>>
  /\ UNCHANGED << installer_state, download_progress, selected_apps,
                  ninite_apps, current_tab, ninite_running,
                  message_receiver, LAST_CHECK, nruns, exe_exists, registry,
                  networks, network_stats, cpu_load,
                  current_cpu_usage, gpu_info, nvml, frame, transitions >>

\* download_ninite_installer returns Err(e); the spawn wrapper (lines
\* 880-889) then does sender.send(InstallerMessage::Error(e.to_string())).ok()
return_err(r, t, e, end) ==
  IF alive(r)
  THEN Commit(r, Sent(Ended(t, e, end), ErrorMsg(e)), << ErrorMsg(e) >>,
              end # "absent")
  ELSE Commit(r, Ended(t, e, end), <<>>, end # "absent")

\* Self::send_message(&sender, m)?  followed by the state t
send_message(r, t, m, end) ==
  IF alive(r)
  THEN Commit(r, Sent(t, m), << m >>, end # "absent")
  ELSE return_err(r, t, ChannelError, end)

\* std::fs::remove_file whose result is ignored or only logged: the file is
\* gone, or the delete failed and it is still there
best_effort_remove == IF artifact THEN { "absent", "undeletable" } ELSE { "absent" }

\* TaskStart without the emptiness check of lines 957-959
TaskStart_unchecked(r) ==
  /\ tasks[r].pc = "start"
  /\ send_message(r, [tasks[r] EXCEPT !.pc = "get"], SetState(Downloading), Untouched)

\* TaskStart without the SetState(Downloading) of line 961
TaskStart_silent(r) ==
  /\ tasks[r].pc = "start"
  /\ LET t == tasks[r] IN
     IF t.selected_apps = <<>>
     THEN return_err(r, t, NoAppsSelected, Untouched)
     ELSE Commit(r, [t EXCEPT !.pc = "get"], <<>>, artifact)

\* lines 957-961
TaskStart(r) ==
  /\ tasks[r].pc = "start"
  /\ LET t == tasks[r] IN
     IF t.selected_apps = <<>>
     THEN return_err(r, t, NoAppsSelected, Untouched)
     ELSE send_message(r, [t EXCEPT !.pc = "get"], SetState(Downloading), Untouched)

\* lines 965-967: ninite_apps.iter().find(|app| app.name == *name), mapped
\* to the app's ninite_id
find_id(catalog, name) ==
  LET hits == { i \in 1..Len(catalog) : catalog[i].name = name } IN
  IF hits = {} THEN None
  ELSE Some(catalog[CHOOSE i \in hits : \A j \in hits : i <= j].ninite_id)

\* lines 963-970: filter_map over the selection, collected
RECURSIVE app_ids(_, _)
app_ids(selected, catalog) ==
  IF selected = <<>> THEN <<>>
  ELSE LET id == find_id(catalog, Head(selected)) IN
       (IF id = None THEN <<>> ELSE << id[1] >>) \o app_ids(Tail(selected), catalog)

\* a join that puts the separator after every identifier
RECURSIVE join_trailing(_, _)
join_trailing(ids, sep) ==
  IF ids = <<>> THEN "" ELSE Head(ids) \o sep \o join_trailing(Tail(ids), sep)

\* [String]::join
RECURSIVE join(_, _)
join(ids, sep) ==
  IF ids = <<>> THEN ""
  ELSE IF Len(ids) = 1 THEN ids[1]
  ELSE Head(ids) \o sep \o join(Tail(ids), sep)

\* lines 972-973
build_url(selected, catalog) ==
  "https://ninite.com/" \o join(app_ids(selected, catalog), "-") \o "/ninite.exe"

\* what response.content_length() can return
ContentLengths == { None } \cup { Some(n) : n \in 0..MaxBody }

\* TaskResponse that creates (truncates) the target file before it removes
\* an existing one
TaskResponse_truncating(r) ==
  /\ tasks[r].pc = "get"
  /\ LET t == [tasks[r] EXCEPT !.net = TRUE,
                 !.url = build_url(tasks[r].selected_apps, tasks[r].ninite_apps)] IN
     \/ return_err(r, t, DownloadFailed("request"), Untouched)
     \/ return_err(r, t, DownloadFailed("status"), Untouched)
     \/ \E len \in ContentLengths, body \in 1..MaxBody :
          LET t1 == [t EXCEPT !.total_size = unwrap_or(len, 0), !.body = body,
                              !.file = "open"] IN
          \/ /\ artifact
             /\ return_err(r, t1, DownloadFailed("remove"), "undeletable")
          \/ return_err(r, t1, DownloadFailed("create"), "absent")
          \/ Commit(r, [t1 EXCEPT !.pc = "stream"], <<>>, TRUE)

\* lines 976-1017: the request, the status check, and the preparation of
\* the target file
TaskResponse(r) ==
  /\ tasks[r].pc = "get"
  /\ LET t == [tasks[r] EXCEPT !.net = TRUE,
                 !.url = build_url(tasks[r].selected_apps, tasks[r].ninite_apps)] IN
     \/ return_err(r, t, DownloadFailed("request"), Untouched)
     \/ return_err(r, t, DownloadFailed("status"), Untouched)
     \/ \E len \in ContentLengths, body \in 1..MaxBody :
          LET t1 == [t EXCEPT !.total_size = unwrap_or(len, 0), !.body = body] IN
          \/ /\ artifact
             /\ return_err(r, t1, DownloadFailed("remove"), "undeletable")
          \/ return_err(r, t1, DownloadFailed("create"), "absent")
          \/ Commit(r, [t1 EXCEPT !.pc = "stream", !.file = "open"], <<>>, TRUE)

\* TaskChunk that reports progress whether or not the length is known
TaskChunk_always(r) ==
  /\ tasks[r].pc = "stream"
  /\ LET t == tasks[r] IN
     \/ /\ t.body > 0
        /\ \E c \in 1..MaxChunk :
             /\ c <= t.body
             /\ LET t1 == [t EXCEPT !.downloaded = @ + c, !.body = @ - c,
                                    !.chunks = @ + 1] IN
                send_message(r, t1,
                  UpdateProgress(<< t1.downloaded, t1.total_size >>), Untouched)
     \/ /\ t.body = 0
        /\ send_message(r, [t EXCEPT !.pc = "spawn", !.file = "closed"],
                        SetState(Installing), Untouched)

\* TaskChunk with the progress computed before downloaded is advanced
TaskChunk_stale(r) ==
  /\ tasks[r].pc = "stream"
  /\ LET t == tasks[r] IN
     \/ /\ t.body > 0
        /\ \E c \in 1..MaxChunk :
             /\ c <= t.body
             /\ LET t1 == [t EXCEPT !.downloaded = @ + c, !.body = @ - c,
                                    !.chunks = @ + 1] IN
                IF t1.total_size > 0
                THEN send_message(r, t1,
                       UpdateProgress(<< t.downloaded, t.total_size >>), Untouched)
                ELSE Commit(r, t1, <<>>, artifact)
     \/ /\ t.body = 0
        /\ send_message(r, [t EXCEPT !.pc = "spawn", !.file = "closed"],
                        SetState(Installing), Untouched)

\* lines 1019-1044: one stream.next().await, and what follows it up to the
\* next await
TaskChunk(r) ==
  /\ tasks[r].pc = "stream"
  /\ LET t == tasks[r] IN
     \/ /\ t.body > 0
        /\ \E c \in 1..MaxChunk :
             /\ c <= t.body
             /\ \/ LET t1 == [t EXCEPT !.downloaded = @ + c, !.body = @ - c,
                                       !.chunks = @ + 1] IN
                   IF t1.total_size > 0
                   THEN send_message(r, t1,
                          UpdateProgress(<< t1.downloaded, t1.total_size >>),
                          Untouched)
                   ELSE Commit(r, t1, <<>>, artifact)
                \/ \E end \in best_effort_remove :
                     return_err(r, t, DownloadFailed("write"), end)
     \/ return_err(r, t, DownloadFailed("body"), Untouched)
     \/ /\ t.body = 0
        /\ send_message(r, [t EXCEPT !.pc = "spawn", !.file = "closed"],
                        SetState(Installing), Untouched)

\* lines 1047-1048 and 1071-1078
TaskSpawn(r) ==
  /\ tasks[r].pc = "spawn"
  /\ LET t == tasks[r] IN
     \/ /\ artifact
        /\ Commit(r, [t EXCEPT !.pc = "wait", !.child = "running"], <<>>, artifact)
     \/ \E end \in best_effort_remove :
          return_err(r, t, DownloadFailed("spawn"), end)

\* what the exit status of the installer process can be
ExitCodes == { 0, 1 }

\* TaskWait that takes a nonzero exit code for a failure
TaskWait_checked(r) ==
  /\ tasks[r].pc = "wait"
  /\ LET t == tasks[r] IN
     /\ t.child = "exited"
     /\ \E code \in ExitCodes, end \in best_effort_remove :
          LET t1 == [t EXCEPT !.exit = Some(code)] IN
          IF code = 0
          THEN send_message(r, Ended(t1, "ok", end), SetState(Idle), end)
          ELSE return_err(r, t1, DownloadFailed("wait"), end)

\* TaskWait that does not await the exit of the child
TaskWait_early(r) ==
  /\ tasks[r].pc = "wait"
  /\ \E end \in best_effort_remove :
       send_message(r, Ended(tasks[r], "ok", end), SetState(Idle), end)

\* lines 1052-1069 and 1081-1082
TaskWait(r) ==
  /\ tasks[r].pc = "wait"
  /\ LET t == tasks[r] IN
     \/ /\ t.child = "exited"
        /\ \E code \in ExitCodes, end \in best_effort_remove :
             send_message(r, Ended([t EXCEPT !.exit = Some(code)], "ok", end),
                          SetState(Idle), end)
     \/ \E end \in best_effort_remove :
          return_err(r, t, DownloadFailed("wait"), end)

(* ========================== environment =============================== *)
\* the names download_ninite_installer resolves in the catalog
Resolved(sel) == { sel[i] : i \in 1..Len(sel) } \cap AppNames

\* ChildExit in which the installer also marks what it installed in the
\* dashboard's catalog
ChildExit_marking(r) ==
  /\ tasks[r].child = "running"
  /\ \E S \in SUBSET Resolved(tasks[r].selected_apps) :
       /\ exe_exists' = [a \in AppNames |-> exe_exists[a] \/ a \in S]
       /\ ninite_apps' = [i \in AppIdx |-> ninite_apps[i] \/ Catalog[i].name \in S]
  /\ tasks' = [tasks EXCEPT ![r].child = "exited"]
  /\ retry_clicked' = FALSE
  /\ status_log' = <<>>
  /\ UNCHANGED << installer_state, download_progress, selected_apps,
                  current_tab, ninite_running, message_receiver,
                  LAST_CHECK, queue, nruns, artifact, registry, networks,
                  network_stats, cpu_load,
                  current_cpu_usage, gpu_info, nvml, frame, transitions >>

\* the installer process exits, having installed some of the selected apps
ChildExit(r) ==
  /\ tasks[r].child = "running"
  /\ \E S \in SUBSET Resolved(tasks[r].selected_apps) :
       exe_exists' = [a \in AppNames |-> exe_exists[a] \/ a \in S]
  /\ tasks' = [tasks EXCEPT ![r].child = "exited"]
  /\ retry_clicked' = FALSE
  /\ status_log' = <<>>
  /\ UNCHANGED << installer_state, download_progress, selected_apps,
                  ninite_apps, current_tab, ninite_running, message_receiver,
                  LAST_CHECK, queue, nruns, artifact, registry, networks,
                  network_stats, cpu_load,
                  current_cpu_usage, gpu_info, nvml, frame, transitions >>

(* ========================= specification ============================== *)
Init ==
  /\ installer_state = Idle
  /\ download_progress = << 0, 1 >>
  /\ selected_apps = <<>>
  /\ ninite_apps = [i \in AppIdx |-> FALSE]
  /\ current_tab = "Dashboard"
  /\ ninite_running = FALSE
  /\ message_receiver = 0
  /\ LAST_CHECK = FALSE
  /\ queue = <<>>
  /\ tasks = [r \in Runs |-> NoTask]
  /\ nruns = 0
  /\ artifact \in BOOLEAN
  /\ exe_exists = [a \in AppNames |-> a \in Preinstalled]
  /\ registry = [a \in AppNames |-> [keys |-> a \in Preinstalled,
                                      uninstall |-> a \in Preinstalled]]
  /\ status_log = <<>>
  /\ networks = NoInterfaces
  /\ network_stats = NoInterfaces
  /\ IdleMachine
  /\ frame = None
  /\ transitions = {}
  /\ retry_clicked = FALSE

Next ==
  \/ update
  \/ \E r \in Runs : TaskStart(r)
  \/ \E r \in Runs : TaskResponse(r)
  \/ \E r \in Runs : TaskChunk(r)
  \/ \E r \in Runs : TaskSpawn(r)
  \/ \E r \in Runs : TaskWait(r)
  \/ \E r \in Runs : ChildExit(r)

Spec == Init /\ [][Next]_vars

\* Frames keep being processed (update asks for the next repaint itself,
\* line 1239, and nothing in it blocks), the 2-second process scan of lines
\* 1098-1115 comes due again and again, and the runtime keeps polling a
\* task that can take a step. A frame is a step that changes the parity.
FrameStep(checkDue) ==
  frame' = Some([parity |-> 1 - frame[1].parity, checkDue |-> checkDue])

Fairness ==
  /\ WF_frame(\E checkDue \in BOOLEAN : FrameStep(checkDue))
  /\ WF_frame(FrameStep(TRUE))
  /\ \A r \in Runs :
       WF_vars(TaskStart(r) \/ TaskResponse(r) \/ TaskChunk(r) \/ TaskSpawn(r)
               \/ TaskWait(r))

\* The state right after the click that starts the last run the model
\* follows: the earlier runs are over and their channels gone, the new task
\* is spawned with the first catalog entry selected, nothing is sent yet.
InitLive ==
  /\ installer_state = Idle
  /\ download_progress = << 0, 1 >>
  /\ selected_apps = << Catalog[1].name >>
  /\ ninite_apps = [i \in AppIdx |-> Catalog[i].name \in Preinstalled]
  /\ current_tab = "Tools"
  /\ ninite_running = FALSE
  /\ message_receiver = MaxRuns
  /\ LAST_CHECK = TRUE
  /\ queue = <<>>
  /\ tasks = [r \in Runs |->
                IF r = MaxRuns THEN [NoTask EXCEPT !.pc = "start",
                                                   !.selected_apps = selected_apps,
                                                   !.ninite_apps = Catalog]
                ELSE Dropped]
  /\ nruns = MaxRuns
  /\ artifact \in BOOLEAN
  /\ exe_exists = [a \in AppNames |-> a \in Preinstalled]
  /\ registry = [a \in AppNames |-> [keys |-> a \in Preinstalled,
                                      uninstall |-> a \in Preinstalled]]
  /\ status_log = <<>>
  /\ networks = NoInterfaces
  /\ network_stats = NoInterfaces
  /\ IdleMachine
  /\ frame = Some([parity |-> 0, checkDue |-> FALSE])
  /\ transitions = {}
  /\ retry_clicked = FALSE

SpecLive == InitLive /\ [][Next]_vars /\ Fairness

\* The pipeline started directly, as a test of download_ninite_installer
\* does: run 1 is spawned with any selection, the empty one included.
Selections == { <<>> } \cup { << Catalog[i].name >> : i \in AppIdx }

InitStart ==
  /\ installer_state = Idle
  /\ download_progress = << 0, 1 >>
  /\ selected_apps \in Selections
  /\ ninite_apps = [i \in AppIdx |-> Catalog[i].name \in Preinstalled]
  /\ current_tab = "Tools"
  /\ ninite_running = FALSE
  /\ message_receiver = 1
  /\ LAST_CHECK = TRUE
  /\ queue = <<>>
  /\ tasks = [r \in Runs |->
                IF r = 1 THEN [NoTask EXCEPT !.pc = "start",
                                             !.selected_apps = selected_apps,
                                             !.ninite_apps = Catalog]
                ELSE NoTask]
  /\ nruns = 1
  /\ artifact \in BOOLEAN
  /\ exe_exists = [a \in AppNames |-> a \in Preinstalled]
  /\ registry = [a \in AppNames |-> [keys |-> a \in Preinstalled,
                                      uninstall |-> a \in Preinstalled]]
  /\ status_log = <<>>
  /\ networks = NoInterfaces
  /\ network_stats = NoInterfaces
  /\ IdleMachine
  /\ frame = None
  /\ transitions = {}
  /\ retry_clicked = FALSE

SpecStart == InitStart /\ [][Next]_vars

\* download_ninite_installer about to make its request, for any non-empty
\* selection of up to MaxSel names, some of them in no catalog, and any
\* prefix of the catalog
MaxSel == 3
UrlNames == { AllApps[i].name : i \in 1..Len(AllApps) } \cup { "Unlisted" }
UrlSelections ==
  UNION { [1..n -> UrlNames] : n \in 1..MaxSel }
UrlCatalogs == { SubSeq(AllApps, 1, n) : n \in 0..Len(AllApps) }

InitUrl ==
  /\ installer_state = Idle
  /\ download_progress = << 0, 1 >>
  /\ selected_apps \in UrlSelections
  /\ ninite_apps = [i \in AppIdx |-> Catalog[i].name \in Preinstalled]
  /\ current_tab = "Tools"
  /\ ninite_running = FALSE
  /\ message_receiver = 1
  /\ LAST_CHECK = TRUE
  /\ queue = << SetState(Downloading) >>
  /\ \E catalog \in UrlCatalogs :
       tasks = [r \in Runs |->
                  IF r = 1 THEN [NoTask EXCEPT !.pc = "get",
                                               !.selected_apps = selected_apps,
                                               !.ninite_apps = catalog,
                                               !.sent = << SetState(Downloading) >>]
                  ELSE NoTask]
  /\ nruns = 1
  /\ artifact \in BOOLEAN
  /\ exe_exists = [a \in AppNames |-> a \in Preinstalled]
  /\ registry = [a \in AppNames |-> [keys |-> a \in Preinstalled,
                                      uninstall |-> a \in Preinstalled]]
  /\ status_log = <<>>
  /\ networks = NoInterfaces
  /\ network_stats = NoInterfaces
  /\ IdleMachine
  /\ frame = None
  /\ transitions = {}
  /\ retry_clicked = FALSE

NextUrl == \E r \in Runs : TaskResponse(r)

SpecUrl == InitUrl /\ [][NextUrl]_vars

\* The detector and the drain step on their own: a run has sent its last
\* message, SetState(Idle), which is still in the channel; the selection is
\* any non-empty list of distinct catalog names, the installed flags are as
\* any earlier pass left them, and the files and registry entries are any.
DetectSelections ==
  { sel \in UNION { [1..n -> AppNames] : n \in 1..Len(Catalog) } :
      \A i, j \in 1..Len(sel) : i # j => sel[i] # sel[j] }
RegSignals == [keys : BOOLEAN, uninstall : BOOLEAN]

InitDetect ==
  /\ installer_state = Installing
  /\ download_progress = << 1, 1 >>
  /\ selected_apps \in DetectSelections
  /\ ninite_apps \in [AppIdx -> BOOLEAN]
  /\ current_tab = "Tools"
  /\ ninite_running = FALSE
  /\ message_receiver = 1
  /\ LAST_CHECK = TRUE
  /\ queue = << SetState(Idle) >>
  /\ tasks = [r \in Runs |->
                IF r = 1
                THEN [NoTask EXCEPT !.pc = "done", !.result = "ok",
                        !.selected_apps = selected_apps,
                        !.ninite_apps = Catalog,
                        !.url = build_url(selected_apps, Catalog),
                        !.file = "closed", !.child = "exited",
                        !.net = TRUE, !.exit = Some(0),
                        !.sent = << SetState(Downloading), SetState(Installing),
                                    SetState(Idle) >>]
                ELSE NoTask]
  /\ nruns = 1
  /\ artifact = FALSE
  /\ exe_exists \in [AppNames -> BOOLEAN]
  /\ registry \in [AppNames -> RegSignals]
  /\ status_log = <<>>
  /\ networks = NoInterfaces
  /\ network_stats = NoInterfaces
  /\ IdleMachine
  /\ frame = None
  /\ transitions = { << "Idle", "Downloading" >>, << "Downloading", "Installing" >> }
  /\ retry_clicked = FALSE

\* what a handler step leaves of the record it worked on
Stored(d) ==
  /\ installer_state' = d.installer_state
  /\ download_progress' = d.download_progress
  /\ selected_apps' = d.selected_apps
  /\ ninite_apps' = d.ninite_apps
  /\ queue' = d.queue
  /\ transitions' = d.transitions
  /\ status_log' = d.status_log
  /\ network_stats' = d.network_stats
  /\ current_cpu_usage' = d.current_cpu_usage
  /\ gpu_info' = d.gpu_info
  /\ retry_clicked' = FALSE
  /\ UNCHANGED << current_tab, ninite_running, message_receiver, LAST_CHECK,
                  tasks, nruns, artifact, exe_exists, registry, networks,
                  cpu_load, nvml, frame >>

\* one iteration of the try_recv loop, lines 722-746
DrainStep ==
  /\ message_receiver # 0
  /\ queue # <<>>
  /\ Stored([apply_message(Self, Head(queue)) EXCEPT !.queue = Tail(queue)])

\* one detection pass over the catalog, lines 1109-1111 (and 714-716)
DetectionPass == Stored(detection_pass(Self))

\* two detection passes in one frame, with nothing in between: the pass of
\* the 2-second check (lines 1108-1112) and then the periodic pass of
\* show_tools_tab (lines 713-718)
DoublePass == Stored(detection_pass(detection_pass(Self)))

\* a probed file of one app is created or removed (installed or
\* uninstalled outside the dashboard)
FileChange ==
  /\ \E a \in AppNames : exe_exists' = [exe_exists EXCEPT ![a] = ~@]
  /\ status_log' = <<>>
  /\ retry_clicked' = FALSE
  /\ UNCHANGED << installer_state, download_progress, selected_apps,
                  ninite_apps, current_tab, ninite_running, message_receiver,
                  LAST_CHECK, queue, tasks, nruns, artifact, registry,
                  networks, network_stats, cpu_load,
                  current_cpu_usage, gpu_info, nvml, frame, transitions >>

\* the registry entries of one app change
RegistryChange ==
  /\ \E a \in AppNames, sig \in RegSignals :
       /\ sig # registry[a]
       /\ registry' = [registry EXCEPT ![a] = sig]
  /\ status_log' = <<>>
  /\ retry_clicked' = FALSE
  /\ UNCHANGED << installer_state, download_progress, selected_apps,
                  ninite_apps, current_tab, ninite_running, message_receiver,
                  LAST_CHECK, queue, tasks, nruns, artifact, exe_exists,
                  networks, network_stats, cpu_load,
                  current_cpu_usage, gpu_info, nvml, frame, transitions >>

NextDetect ==
  DrainStep \/ DetectionPass \/ DoublePass \/ FileChange \/ RegistryChange

SpecDetect == InitDetect /\ [][NextDetect]_vars

\* The network card on its own: the system reports any subset of the
\* interfaces with any readings, and network_stats is as DevDashboard::default
\* builds it (lines 403-415).
InterfaceNames == { "Ethernet", "lo" }
NetEnvs == UNION { [S -> 0..MaxReading] : S \in SUBSET InterfaceNames }

InitNetworks(envs) ==
  /\ installer_state = Idle
  /\ download_progress = << 0, 1 >>
  /\ selected_apps = <<>>
  /\ ninite_apps = [i \in AppIdx |-> FALSE]
  /\ current_tab = "Dashboard"
  /\ ninite_running = FALSE
  /\ message_receiver = 0
  /\ LAST_CHECK = FALSE
  /\ queue = <<>>
  /\ tasks = [r \in Runs |-> NoTask]
  /\ nruns = 0
  /\ artifact = FALSE
  /\ exe_exists = [a \in AppNames |-> a \in Preinstalled]
  /\ registry = [a \in AppNames |-> [keys |-> a \in Preinstalled,
                                      uninstall |-> a \in Preinstalled]]
  /\ status_log = <<>>
  /\ networks \in envs
  /\ network_stats = [n \in { m \in DOMAIN networks : is_physical_interface(m) } |->
                        new_stats(networks[n])]
  /\ frame = None
  /\ transitions = {}
  /\ retry_clicked = FALSE

InitNet == InitNetworks(NetEnvs) /\ IdleMachine

\* the 100 ms network refresh of one frame
NetworkRefresh ==
  \E elapsed \in 0..MaxElapsed : Stored(network_refresh(Self, TRUE, elapsed))

\* the tracked-interface part of the 1-second refresh of one frame
TrackInterfaces == Stored(track_interfaces(Self, TRUE))

EnvStep ==
  /\ status_log' = <<>>
  /\ retry_clicked' = FALSE
  /\ UNCHANGED << installer_state, download_progress, selected_apps,
                  ninite_apps, current_tab, ninite_running, message_receiver,
                  LAST_CHECK, queue, tasks, nruns, artifact, exe_exists,
                  registry, network_stats, cpu_load,
                  current_cpu_usage, gpu_info, nvml, frame, transitions >>

\* an interface's cumulative counter moves (up, or down after a reset)
NetTraffic ==
  /\ \E n \in DOMAIN networks, c \in 0..MaxReading :
       /\ c # networks[n]
       /\ networks' = [networks EXCEPT ![n] = c]
  /\ EnvStep

\* one of the named interfaces appears, or a reported one disappears
InterfaceChanges(names) ==
  /\ \/ \E n \in names \ DOMAIN networks, c \in 0..MaxReading :
          networks' = [m \in DOMAIN networks \cup { n } |->
                         IF m = n THEN c ELSE networks[m]]
     \/ \E n \in DOMAIN networks :
          networks' = [m \in DOMAIN networks \ { n } |-> networks[m]]
  /\ EnvStep

InterfaceChange == InterfaceChanges(InterfaceNames)

NextNet == NetworkRefresh \/ TrackInterfaces \/ NetTraffic \/ InterfaceChange

SpecNet == InitNet /\ [][NextNet]_vars

\* The physical-interface filter on its own: the adapters of a machine with
\* a wired and a wireless adapter, a virtual switch and the loopback, each
\* present or not; the tracked set is rebuilt by the 1-second refresh.
AdapterNames == { "Ethernet", "Wi-Fi", "vEthernet (WSL)", "lo" }
AdapterEnvs == UNION { [S -> 0..MaxReading] : S \in SUBSET AdapterNames }

InitFilter == InitNetworks(AdapterEnvs) /\ IdleMachine

AdapterChange == InterfaceChanges(AdapterNames)

NextFilter == TrackInterfaces \/ AdapterChange

SpecFilter == InitFilter /\ [][NextFilter]_vars

\* The smoothing of the processor load on its own: any displayed value and
\* target, frames of any length, and a load that changes.
Loads == { 0, 1, Unit \div 2, (5 * Unit) \div 8, (7 * Unit) \div 8, Unit, 2 * Unit }

InitAnim ==
  /\ InitNetworks({ NoInterfaces })
  /\ cpu_load \in Loads
  /\ current_cpu_usage \in [current : Loads, target : { cpu_load }, delta_time : { 0 }]
  /\ gpu_info = None
  /\ nvml = None

\* line 1122: the animation step of one frame
Animate == \E delta_time \in DeltaTimes : Stored(animate(Self, delta_time))

\* lines 1178-1187 of the 1-second refresh
CpuRefresh == Stored(cpu_refresh(Self, TRUE))

\* the load of the processor changes
CpuChange ==
  /\ cpu_load' \in Loads \ { cpu_load }
  /\ status_log' = <<>>
  /\ retry_clicked' = FALSE
  /\ UNCHANGED << installer_state, download_progress, selected_apps,
                  ninite_apps, current_tab, ninite_running, message_receiver,
                  LAST_CHECK, queue, tasks, nruns, artifact, exe_exists,
                  registry, networks, network_stats, current_cpu_usage,
                  gpu_info, nvml, frame, transitions >>

NextAnim == Animate \/ CpuRefresh \/ CpuChange

SpecAnim == InitAnim /\ [][NextAnim]_vars

\* The GPU card on its own: a machine with any outcome of the two
\* libraries at start-up. Line 437 calls Nvml::init() a second time; it is
\* given the outcome of the call inside initialize_gpu.
InitGpu ==
  /\ InitNetworks({ NoInterfaces })
  /\ cpu_load = 0
  /\ current_cpu_usage = AnimatedValue_new(0)
  /\ \E init \in BOOLEAN, device \in BOOLEAN, results \in WmiControllers :
       /\ gpu_info = initialize_gpu(init, device, results)
       /\ nvml = IF init THEN Some("Nvml") ELSE None

\* the GPU part of the 1-second refresh of one frame
UpdateGpuInfo ==
  \E gpu \in GpuInputs :
    Stored(update_gpu_info(Self, TRUE, gpu.device, gpu.rates, gpu.perf))

NextGpu == UpdateGpuInfo \/ Animate

SpecGpu == InitGpu /\ [][NextGpu]_vars

(* ============================ properties ============================== *)
Live(r) == tasks[r].pc \notin { "unspawned", "done" }
Failed(r) == tasks[r].pc = "done" /\ tasks[r].result \notin { "none", "ok" }
InSeq(m, q) == \E i \in 1..Len(q) : q[i] = m
IsProgress(m) == m[1] = "UpdateProgress"
ProgressOf(q) == SelectSeq(q, IsProgress)
\* p <= q for two progress values, by cross multiplication
Leq(p, q) == p[1] * q[2] <= q[1] * p[2]

\* C1: at most one pipeline run is in progress at any time: no task is
\* spawned while an earlier task has been started and has not yet finished.
C1_AtMostOneRun == Cardinality({ r \in Runs : Live(r) }) <= 1

\* C2: installer_state only ever changes along Idle->Downloading,
\* Downloading->Installing, Installing->Idle, Downloading->Error,
\* Installing->Error and Error->Idle.
AllowedTransitions ==
  { << "Idle", "Downloading" >>, << "Downloading", "Installing" >>,
    << "Installing", "Idle" >>, << "Downloading", "Error" >>,
    << "Installing", "Error" >>, << "Error", "Idle" >> }
C2_OnlyAllowedTransitions == transitions \subseteq AllowedTransitions

C2_Witness ==
  /\ << "Installing", "Idle" >> \in transitions
  /\ << "Downloading", "Error" >> \in transitions

\* C3: once installer_state is Error it stays Error until the user presses
\* Retry, and Retry sets it to Idle (without starting a run). Stated here:
\* after an update in which the user clicked Retry, installer_state is Idle.
C3_RetryResetsToIdle == retry_clicked => installer_state = Idle

C5_NonSuccessStatus ==
  \A r \in Runs :
    tasks[r].result = DownloadFailed("status")
    => /\ Len(SelectSeq(tasks[r].sent, LAMBDA m : m[1] = "Error")) = 1
       /\ ~InSeq(SetState(Installing), tasks[r].sent)
       /\ tasks[r].at_end = "absent"

\* C6: on every failing exit during download or install (transport error
\* while streaming, file write failure, spawn failure, wait failure) no
\* artifact file is left at the target path when the run ends (a delete
\* that the code attempted and that failed is not held against it here).
C6_NoArtifactAfterFailure ==
  \A r \in Runs :
    tasks[r].result \in { DownloadFailed("body"), DownloadFailed("write"),
                          DownloadFailed("spawn"), DownloadFailed("wait") }
    => tasks[r].at_end # "left"

\* C7: every run that ends with an error becomes visible to the consumer.
\* Stated as its safety part: the error of a failed run is shown in
\* installer_state or is still in the channel the consumer reads (or was
\* shown and reset by Retry); otherwise it can never be shown.
C7_ErrorReachesConsumer ==
  \A r \in Runs :
    Failed(r) => \/ installer_state = Error(tasks[r].result)
                 \/ alive(r) /\ InSeq(ErrorMsg(tasks[r].result), queue)
                 \/ << "Error", "Idle" >> \in transitions

\* C8: every frame drains the channel until it is empty.
C8_DrainedEveryFrame == [][update => queue' = <<>>]_vars

\* C9: in a run where every step succeeds the messages are, in order,
\* SetState(Downloading), then only UpdateProgress, then SetState(Installing)
\* (sent once the file is completely written and closed), then
\* SetState(Idle) (sent only after the installer process exited); no Error.
C9_SuccessfulRunMessages ==
  \A r \in Runs :
    /\ tasks[r].result = "ok" =>
         LET q == tasks[r].sent IN
         /\ Len(q) >= 3
         /\ q[1] = SetState(Downloading)
         /\ \A i \in 2..(Len(q) - 2) : IsProgress(q[i])
         /\ q[Len(q) - 1] = SetState(Installing)
         /\ q[Len(q)] = SetState(Idle)
    /\ InSeq(SetState(Installing), tasks[r].sent) =>
         tasks[r].file = "closed" /\ tasks[r].body = 0
    /\ InSeq(SetState(Idle), tasks[r].sent) => tasks[r].child = "exited"

C9_Witness ==
  \E r \in Runs : tasks[r].result = "ok" /\ Len(tasks[r].sent) >= 5

\* C10: with a known content length n > 0, one UpdateProgress follows each
\* chunk, with non-decreasing values; when the k chunks total exactly n the
\* last value is exactly 1.0 and SetState(Installing) follows it directly.
C10_ProgressPerChunk ==
  \A r \in Runs :
    (tasks[r].pc \in { "stream", "spawn", "wait" } /\ tasks[r].total_size > 0)
    => LET t == tasks[r]
           p == ProgressOf(t.sent)
       IN /\ Len(p) = t.chunks
          /\ \A i \in 1..Len(p) : t.sent[i + 1] = p[i]
          /\ \A i \in 1..(Len(p) - 1) : Leq(p[i][2], p[i + 1][2])
          /\ (t.pc # "stream" /\ t.downloaded = t.total_size) =>
               /\ Len(p) >= 1
               /\ p[Len(p)][2][1] = p[Len(p)][2][2]
               /\ Len(t.sent) = t.chunks + 2
               /\ t.sent[t.chunks + 2] = SetState(Installing)

C10_Witness ==
  \E r \in Runs : /\ tasks[r].pc = "spawn"
                  /\ tasks[r].total_size > 0
                  /\ tasks[r].downloaded = tasks[r].total_size
                  /\ tasks[r].chunks >= 2

\* C11: every UpdateProgress placed on the channel carries a fraction
\* within [0.0, 1.0], whatever the body and the declared content length.
C11_ProgressWithinUnit ==
  \A r \in Runs : \A i \in 1..Len(tasks[r].sent) :
    IsProgress(tasks[r].sent[i])
    => LET p == tasks[r].sent[i][2] IN 0 <= p[1] /\ p[1] <= p[2]

\* C12: with no declared content length, or a declared length of zero, the
\* run sends no UpdateProgress however many chunks it receives, and sends
\* SetState(Installing) once the stream has ended.
C12_NoProgressWithoutLength ==
  \A r \in Runs :
    (tasks[r].pc \in { "stream", "spawn", "wait" } /\ tasks[r].total_size = 0)
    => /\ ProgressOf(tasks[r].sent) = <<>>
       /\ tasks[r].pc # "stream" =>
            tasks[r].sent = << SetState(Downloading), SetState(Installing) >>
       /\ alive(r)

C12_Witness ==
  \E r \in Runs : /\ tasks[r].pc = "spawn"
                  /\ tasks[r].total_size = 0
                  /\ tasks[r].chunks >= 2

\* C13: once the installer process has exited, whatever its exit code, the
\* run is a success: its last message is SetState(Idle) and it sends no
\* Error, also when the delete of the artifact after the exit failed.
C13_ExitIsSuccess ==
  \A r \in Runs :
    tasks[r].exit # None
    => /\ tasks[r].result = "ok"
       /\ tasks[r].sent[Len(tasks[r].sent)] = SetState(Idle)
       /\ \A i \in 1..Len(tasks[r].sent) : tasks[r].sent[i][1] # "Error"

C13_Witness ==
  \E r \in Runs : /\ tasks[r].exit = Some(1)
                  /\ tasks[r].at_end = "undeletable"
                  /\ tasks[r].result = "ok"

\* C14: when an artifact exists at the target path and deleting it fails,
\* the run fails with DownloadFailed before any write: the file is never
\* opened (so neither created anew, truncated nor written) and is still
\* there, SetState(Installing) is not sent and no process is spawned.
C14_UndeletableAbortsBeforeWrite ==
  \A r \in Runs :
    tasks[r].result = DownloadFailed("remove")
    => /\ tasks[r].file = "none"
       /\ tasks[r].at_end = "undeletable"
       /\ ~InSeq(SetState(Installing), tasks[r].sent)
       /\ tasks[r].child = "none"

C14_Witness ==
  \E r \in Runs : /\ tasks[r].result = DownloadFailed("remove")
                  /\ InSeq(ErrorMsg(DownloadFailed("remove")), queue)

\* the identifiers of the names of sel that the catalog lists, in the order
\* of sel, each name standing for the first catalog entry that carries it
Listed(catalog, name) == \E i \in 1..Len(catalog) : catalog[i].name = name
IdOf(catalog, name) ==
  catalog[CHOOSE i \in 1..Len(catalog) :
            /\ catalog[i].name = name
            /\ \A j \in 1..(i - 1) : catalog[j].name # name].ninite_id
ResolvedIds(sel, catalog) ==
  LET kept == SelectSeq(sel, LAMBDA n : Listed(catalog, n)) IN
  [i \in 1..Len(kept) |-> IdOf(catalog, kept[i])]
\* ids joined with '-', built from the right
RECURSIVE Dashed(_)
Dashed(ids) ==
  IF ids = <<>> THEN ""
  ELSE LET n == Len(ids) IN
       IF n = 1 THEN ids[1] ELSE Dashed(SubSeq(ids, 1, n - 1)) \o "-" \o ids[n]

\* C15: the download URL is built from exactly the identifiers of the
\* selected names that resolve in the catalog, in selection order, joined
\* with '-'; a name the catalog does not list contributes nothing and is
\* no error (the request is made with that URL).
C15_UrlFromResolvedIds ==
  \A r \in Runs :
    tasks[r].net
    => tasks[r].url = "https://ninite.com/"
                        \o Dashed(ResolvedIds(tasks[r].selected_apps, tasks[r].ninite_apps))
                        \o "/ninite.exe"

C15_Witness ==
  /\ tasks[1].net
  /\ tasks[1].selected_apps = << "Firefox", "Unlisted", "Chrome" >>
  /\ Len(tasks[1].ninite_apps) = 3
  /\ tasks[1].url = "https://ninite.com/firefox-chrome/ninite.exe"

FileSignals == [i \in AppIdx |-> exe_exists[Catalog[i].name]]
IsSelected(sel, i) == \E k \in 1..Len(sel) : sel[k] = Catalog[i].name

\* C16: the drain step that applies SetState(Idle) runs detection for every
\* catalog app in that same step; right after it no app whose installed
\* flag is true is in the selection, and every selected app that is still
\* not installed is still selected (in the same order).
C16_IdlePrunesSelection ==
  [][(DrainStep /\ Head(queue) = SetState(Idle))
     => /\ installer_state' = Idle
        /\ ninite_apps' = FileSignals
        /\ \A i \in AppIdx : ninite_apps'[i] => ~IsSelected(selected_apps', i)
        /\ selected_apps' = SelectSeq(selected_apps, LAMBDA n : ~exe_exists[n])]_vars

C16_Witness ==
  /\ installer_state = Idle
  /\ << "Installing", "Idle" >> \in transitions
  /\ status_log = << 1 >>
  /\ ninite_apps = << FALSE, TRUE >>
  /\ selected_apps = << "Chrome" >>
  /\ tasks[1].selected_apps = << "Firefox", "Chrome" >>

\* a step of a task or of the installer process: a task's state changes
\* and no run is started
TaskStep == tasks' # tasks /\ nruns' = nruns

\* C17: installer_state changes only in a frame of the polling context that
\* applies a channel message or performs the Retry reset; an installed
\* flag changes only in a frame that runs a detection pass, which logs the
\* change; every step of a task and of the installer process leaves
\* installer_state, the installed flags and the selection unchanged; and the
\* frame that starts a run leaves installer_state Idle and hands the task
\* the selection as it stands.
C17_OnlyNamedWriters ==
  [][/\ installer_state' # installer_state
          => (message_receiver # 0 /\ (queue # <<>> \/ retry_clicked'))
     /\ ninite_apps' # ninite_apps
          => \E k \in 1..Len(status_log') : status_log'[k] > 0
     /\ TaskStep => UNCHANGED << installer_state, ninite_apps, selected_apps >>
     /\ nruns' # nruns
          => /\ installer_state' = Idle
             /\ tasks'[nruns'].selected_apps = selected_apps'
             /\ tasks'[nruns'].pc = "start"]_vars

\* a task has run all its steps and the installer has installed Chrome,
\* while the polling context has not processed a frame since the start
C17_Witness ==
  \E r \in Runs : /\ tasks[r].pc = "wait"
                  /\ tasks[r].child = "exited"
                  /\ exe_exists["Chrome"]
                  /\ ~ninite_apps[1]
                  /\ installer_state = Idle
                  /\ queue # <<>>

\* C18: after every detection pass each installed flag equals the app's
\* file signal, whatever the registry and uninstall signals are.
C18_InstalledIsFileSignal ==
  [][DetectionPass => ninite_apps' = FileSignals]_vars

\* a pass has just run and found installed an app whose registry signals
\* are both absent, and not installed an app whose registry signals are
\* both present
C18_Witness ==
  /\ status_log = << 2 >>
  /\ ninite_apps = << TRUE, FALSE >>
  /\ registry["Chrome"] = [keys |-> FALSE, uninstall |-> FALSE]
  /\ registry["Firefox"] = [keys |-> TRUE, uninstall |-> TRUE]

\* C19: of two detection passes with no filesystem change in between, the
\* second leaves every flag as the first set it and logs no status change;
\* so does a pass that runs when the flags are already what a pass sets for
\* the current files.
C19_DetectorIdempotent ==
  [][/\ DoublePass => /\ ninite_apps' = detection_pass(Self).ninite_apps
                      /\ Len(status_log') = 2
                      /\ status_log'[2] = 0
     /\ (DetectionPass /\ ninite_apps = FileSignals)
          => (ninite_apps' = ninite_apps /\ status_log' = << 0 >>)]_vars

\* two passes in a row: the first changed both flags, the second none
C19_Witness ==
  /\ status_log = << 2, 0 >>
  /\ ninite_apps = << TRUE, FALSE >>

\* C20: in every network refresh, for every tracked interface the system
\* reports with the cumulative reading c: last_reading becomes c, and when
\* the elapsed time is positive the delta is c - last_reading if
\* c >= last_reading and c itself if c < last_reading (counter reset); the
\* delta is what the rate is computed from and what is added to the total.
C20_DifferentialCounter ==
  [][NetworkRefresh
     => \A n \in DOMAIN network_stats \cap DOMAIN networks :
          LET c == networks[n]
              old == network_stats[n]
              new == network_stats'[n]
              delta == IF c >= old.last_received THEN c - old.last_received ELSE c
          IN /\ new.last_received = c
             /\ new.elapsed > 0
                  => /\ new.received_diff = delta
                     /\ new.received_speed = << delta, new.elapsed >>
                     /\ new.total_received
                          = IF old.total_received + delta > U64_MAX
                            THEN U64_MAX ELSE old.total_received + delta
             /\ new.elapsed = 0
                  => /\ new.received_speed = old.received_speed
                     /\ new.total_received = old.total_received]_vars

\* a counter reset: the reading fell from 3 to 2 and the delta is 2
C20_Witness ==
  /\ "Ethernet" \in DOMAIN network_stats
  /\ network_stats["Ethernet"].prev_received = 3
  /\ network_stats["Ethernet"].last_received = 2
  /\ network_stats["Ethernet"].elapsed = 1
  /\ network_stats["Ethernet"].received_diff = 2
  /\ network_stats["Ethernet"].received_speed = << 2, 1 >>

\* C21: the running total of an interface never decreases while the
\* interface is tracked, whatever refresh or change of the system happens,
\* it never exceeds the 64-bit maximum, and a refresh whose addition would
\* exceed the maximum leaves the total at the maximum.
C21_TotalsMonotone ==
  [][\A n \in DOMAIN network_stats \cap DOMAIN network_stats' :
       LET old == network_stats[n]
           new == network_stats'[n]
       IN /\ new.total_received >= old.total_received
          /\ new.total_received <= U64_MAX
          /\ ( /\ NetworkRefresh
               /\ n \in DOMAIN networks
               /\ new.elapsed > 0
               /\ old.total_received + new.received_diff > U64_MAX )
               => new.total_received = U64_MAX]_vars

\* a refresh added 3 to a total of 6: the total is at the maximum
C21_Witness ==
  /\ "Ethernet" \in DOMAIN network_stats
  /\ network_stats["Ethernet"].prev_total = U64_MAX - 1
  /\ network_stats["Ethernet"].received_diff = 3
  /\ network_stats["Ethernet"].elapsed = 1
  /\ network_stats["Ethernet"].total_received = U64_MAX

\* C22: after the tracked set is rebuilt, "vEthernet (WSL)" is not in it,
\* and "Ethernet" and "Wi-Fi" are in it whenever the system reports them.
C22_FilterExcludesVirtual ==
  [][TrackInterfaces
     => /\ "vEthernet (WSL)" \notin DOMAIN network_stats'
        /\ \A n \in { "Ethernet", "Wi-Fi" } \cap DOMAIN networks :
             n \in DOMAIN network_stats']_vars

\* C23: after the 1-second refresh the tracked set is the set of physical
\* interfaces the system reports, and an interface added by the refresh has
\* a running total of zero, a rate of zero and its first reading as
\* last_reading.
C23_TrackedSetFresh ==
  [][TrackInterfaces
     => /\ DOMAIN network_stats'
             = { n \in DOMAIN networks : is_physical_interface(n) }
        /\ \A n \in DOMAIN network_stats' \ DOMAIN network_stats :
             /\ network_stats'[n].total_received = 0
             /\ network_stats'[n].received_speed[1] = 0
             /\ network_stats'[n].last_received = networks[n]]_vars

\* C24: AnimatedValue::update(dt) with dt >= 0 leaves the new current
\* between the old current and target inclusive, leaves it unchanged when
\* dt = 0, and moves it strictly closer to target when dt > 0 and current
\* differs from target.
Between(x, a, b) == (a <= x /\ x <= b) \/ (b <= x /\ x <= a)

C24_SmoothingContract ==
  [][Animate
     => LET old == current_cpu_usage
            new == current_cpu_usage'
        IN /\ Between(new.current, old.current, old.target)
           /\ new.delta_time = 0 => new.current = old.current
           /\ (new.delta_time > 0 /\ old.current # old.target)
                => Abs(new.current - old.target) < Abs(old.current - old.target)]_vars

\* C25: a step that starts a run ends with installer_state Idle and a
\* non-empty pending selection, which is the selection the run is given;
\* and no run fails with NoAppsSelected, no such error is sent and
\* installer_state never holds it.
C25_RunStartedOnlyWhenIdle ==
  [][/\ nruns' # nruns
          => /\ installer_state' = Idle
             /\ selected_apps' # <<>>
             /\ tasks'[nruns'].selected_apps = selected_apps'
             /\ tasks'[nruns'].pc = "start"
     /\ \A r \in Runs :
          /\ tasks'[r].result # NoAppsSelected
          /\ ~InSeq(ErrorMsg(NoAppsSelected), tasks'[r].sent)
     /\ installer_state' # Error(NoAppsSelected)]_vars

\* a second run was started and has passed its check of the selection
C25_Witness ==
  /\ nruns = 2
  /\ tasks[2].pc = "get"
  /\ tasks[2].selected_apps # <<>>

\* C26: in a frame in which ninite_running is true (after the frame's
\* process scan, if it ran one) no detection pass runs and no app's
\* installed flag changes.
C26_NoDetectionWhileRunning ==
  [][ninite_running' => (status_log' = <<>> /\ ninite_apps' = ninite_apps)]_vars

\* C27: every refresh of the GPU snapshot goes through the library the
\* snapshot was built from.
C27_RefreshThroughOwnProvider ==
  gpu_info # None => gpu_info[1].refreshed_through \subseteq { gpu_info[1].provider }

C29_SelectionNotInstalled ==
  \A i \in AppIdx : ninite_apps[i] => ~IsSelected(selected_apps, i)

\* the progress messages the task of run r has sent, and those of them the
\* polling context has not applied yet
ProgressIn(msgs) == Len(SelectSeq(msgs, LAMBDA m : m[1] = "UpdateProgress"))
ProgressSent(r) == ProgressIn(tasks[r].sent)
ProgressQueued == ProgressIn(queue)

\* C30: the download progress does not carry over between runs: while
\* installer_state is Downloading for the current run and no UpdateProgress
\* of that run has been applied yet, download_progress is 0.
C30_ProgressStartsAtZero ==
  (/\ message_receiver # 0
   /\ installer_state = Downloading
   /\ ProgressSent(message_receiver) = ProgressQueued)
    => download_progress[1] = 0

====
